---- MODULE Spec2Model ----
(***************************************************************************)
(* Model of CallTreeProfiler (src/call-tree-profiler-v5.js): the           *)
(* constructor's fields and the single pass of analyze() over the trace    *)
(* events, one loop iteration per step.                                    *)
(*                                                                         *)
(* JavaScript strings are sequences of one-character strings, so that      *)
(* split(' ') and parseInt(.., 16) are computed and not assumed.  Objects  *)
(* are records; a field an object does not have is absent from the         *)
(* record's DOMAIN (reading it gives JavaScript's undefined).  The nodes   *)
(* of the call tree live in a heap, callTree, and are referred to by       *)
(* their index in it: index 1 is the root object, and a reference held by  *)
(* a stack frame or a children array is an index.                          *)
(***************************************************************************)
EXTENDS Integers, Sequences, FiniteSets, TLC

VARIABLES
    symFile,         \* the file at the symFile path: absent, or its lines
    events,          \* this.events, the trace in arrival order
    symbols,         \* this.symbols: Map address -> label
    functionStats,   \* this.functionStats: Map name -> stats object
    activeFunction,  \* this.activeFunction
    totalCycles,     \* this.totalCycles
    callTree,        \* analyze's node objects; callTree[1] is the root
    callStack,       \* analyze's callStack, bottom first
    idx,             \* number of events the for loop has consumed
    pc,              \* "idle": not inside analyze; "loop": inside its loop
    runs,            \* number of analyze calls that have returned
    returned         \* what each finished call left: tree, stats, total

vars == <<symFile, events, symbols, functionStats, activeFunction, totalCycles, callTree,
          callStack, idx, pc, runs, returned>>

-----------------------------------------------------------------------------
(* Bounds of the model *)

\* longest trace drawn freely from the event alphabet
MaxEvents == 4

\* number of times analyze is called on one profiler object
MaxRuns == 2

\* longest trace drawn from the alphabet of unusual events
MaxRawEvents == 3

-----------------------------------------------------------------------------
(* JavaScript values *)

\* the string 'root'
root == <<"r", "o", "o", "t">>

\* null: a one-element sequence no string of single characters equals
Null == <<"null">>

\* the number Infinity, only ever tested with ===
Infinity == "Infinity"

\* a Map with no entries
EmptyMap == <<>>

\* Map.prototype.set
MapSet(m, k, v) == [x \in (DOMAIN m) \cup {k} |-> IF x = k THEN v ELSE m[x]]

\* obj.f = v on an object that may not have the field yet
SetField(obj, f, v) == [g \in (DOMAIN obj) \cup {f} |-> IF g = f THEN v ELSE obj[g]]

Last(s) == s[Len(s)]

Front(s) == SubSeq(s, 1, Len(s) - 1)

-----------------------------------------------------------------------------
(* String conversions used by the instruction branch *)

HexDigits == <<"0", "1", "2", "3", "4", "5", "6", "7", "8", "9",
               "A", "B", "C", "D", "E", "F">>

IsHexDigit(c) == \E i \in 1..16 : HexDigits[i] = c

HexValue(c) == (CHOOSE i \in 1..16 : HexDigits[i] = c) - 1

\* s.substring(1)
Substring1(s) == SubSeq(s, 2, Len(s))

\* length of the longest prefix of s made of hexadecimal digits
RECURSIVE HexPrefixLen(_)
HexPrefixLen(s) ==
    IF s = <<>> \/ ~IsHexDigit(s[1]) THEN 0 ELSE 1 + HexPrefixLen(Tail(s))

RECURSIVE HexNumber(_, _)
HexNumber(s, n) ==
    IF n = 0 THEN 0 ELSE 16 * HexNumber(s, n - 1) + HexValue(s[n])

\* parseInt(s, 16) for a string that starts with a hexadecimal digit: the
\* value of its longest hexadecimal prefix
ParseInt16(s) == HexNumber(s, HexPrefixLen(s))

\* s.split(' ')[0]: the characters before the first space character
RECURSIVE SplitFirst(_)
SplitFirst(s) ==
    IF s = <<>> \/ s[1] = " " THEN <<>> ELSE <<s[1]>> \o SplitFirst(Tail(s))

-----------------------------------------------------------------------------
(* Trace events *)

BeginEvent(n) == [ph |-> "B", cat |-> "subroutine", name |-> n]

EndEvent(n) == [ph |-> "E", cat |-> "subroutine", name |-> n]

InstructionEvent(descriptor, addr, cycles) ==
    [ph |-> "X", cat |-> "instruction", name |-> descriptor,
     args |-> [addr |-> addr, cycles |-> cycles]]

\* an instruction event whose args carry no cycles field
InstructionNoCycles(descriptor, addr) ==
    [ph |-> "X", cat |-> "instruction", name |-> descriptor,
     args |-> [addr |-> addr]]

\* a metadata event: neither 'B', 'E' nor 'X'
MetadataEvent == [ph |-> "M", cat |-> "__metadata", name |-> <<"m">>]

Names == {<<"A">>, <<"F">>}

Event ==
    {BeginEvent(n) : n \in Names}
    \cup {EndEvent(<<"A">>)}
    \cup {InstructionEvent(<<"X">>, <<"$", "2", "0">>, 10),
          InstructionEvent(<<"X", " ", "1">>, <<"$", "1", "F">>, 5),
          InstructionEvent(<<"Y">>, <<"$", "2", "0">>, 7),
          InstructionNoCycles(<<"Y">>, <<"$", "1", "F">>),
          MetadataEvent}

\* the traces named by the specification's scenarios
RecursionTrace ==
    <<BeginEvent(<<"F">>), InstructionEvent(<<"X">>, <<"$", "2", "0">>, 10),
      BeginEvent(<<"F">>), InstructionEvent(<<"X">>, <<"$", "2", "0">>, 5),
      EndEvent(<<"F">>), EndEvent(<<"F">>)>>

SiblingTrace ==
    <<BeginEvent(<<"A">>), EndEvent(<<"A">>),
      BeginEvent(<<"A">>), EndEvent(<<"A">>)>>

TruncationTrace ==
    <<BeginEvent(<<"A">>), InstructionEvent(<<"Y">>, <<"$", "2", "0">>, 7)>>

BoundedSeq(S, n) == UNION {[1..k -> S] : k \in 0..n}

Traces ==
    BoundedSeq(Event, MaxEvents)
    \cup {RecursionTrace, SiblingTrace, TruncationTrace}

\* the same event under another category
Recategorised(event, cat) == [event EXCEPT !.cat = cat]

\* an event of the subroutine category whose phase is none of 'B', 'E', 'X'
InstantEvent(n) == [ph |-> "i", cat |-> "subroutine", name |-> n]

\* the tab character
Tab == "\t"

\* events a trace file may hold besides the usual ones: boundary events of
\* another category, an instruction event of the subroutine category, other
\* phases, and descriptors with a tab or a leading space
RawEvent ==
    {BeginEvent(<<"A">>), EndEvent(<<"A">>),
     Recategorised(BeginEvent(<<"A">>), "function"),
     Recategorised(EndEvent(<<"A">>), "function"),
     Recategorised(InstructionEvent(<<"L", Tab, "1">>, <<"$", "2", "0">>, 3),
                   "subroutine"),
     InstructionEvent(<<" ", "L">>, <<"$", "1", "F">>, 5),
     InstructionEvent(<<"L", " ", "1">>, <<"$", "2", "0">>, 2),
     InstantEvent(<<"A">>),
     MetadataEvent}

RawTraces == BoundedSeq(RawEvent, MaxRawEvents)

-----------------------------------------------------------------------------
(* The symbol file *)

\* a line the .label pattern matches: its label and its hexadecimal digits
LabelLine(label, hex) == [label |-> label, hex |-> hex]

\* a line the pattern does not match
OtherLine == [text |-> <<"/", "/">>]

\* the file system at the symFile path: no file, or a file of lines
NoSymFile == [exists |-> FALSE]

SymFileOf(lines) == [exists |-> TRUE, lines |-> lines]

SymFiles ==
    {NoSymFile,
     SymFileOf(<<LabelLine(<<"f">>, <<"2", "0">>), OtherLine,
                 LabelLine(<<"g">>, <<"1", "F">>)>>)}

\* the loop over the lines: a matching line sets symbols[addr] = label
RECURSIVE SymbolsOfLines(_)
SymbolsOfLines(lines) ==
    IF lines = <<>> THEN EmptyMap
    ELSE LET line == Last(lines)
             before == SymbolsOfLines(Front(lines))
         IN IF "label" \in DOMAIN line
              THEN MapSet(before, ParseInt16(line.hex), line.label)
              ELSE before

\* parseSymbolFile(filename): an empty Map, with a warning, when the file
\* does not exist
parseSymbolFile(file) ==
    IF ~file.exists THEN EmptyMap ELSE SymbolsOfLines(file.lines)

-----------------------------------------------------------------------------
(* The constructor *)

Init ==
    /\ symFile \in SymFiles
    /\ events \in Traces
    /\ symbols = parseSymbolFile(symFile)
    /\ functionStats = EmptyMap
    /\ activeFunction = Null
    /\ totalCycles = 0
    /\ callTree = <<>>
    /\ callStack = <<>>
    /\ idx = 0
    /\ pc = "idle"
    /\ runs = 0
    /\ returned = <<>>

\* the constructor given a trace file of unusual events
InitRaw ==
    /\ symFile \in SymFiles
    /\ events \in RawTraces
    /\ symbols = parseSymbolFile(symFile)
    /\ functionStats = EmptyMap
    /\ activeFunction = Null
    /\ totalCycles = 0
    /\ callTree = <<>>
    /\ callStack = <<>>
    /\ idx = 0
    /\ pc = "idle"
    /\ runs = 0
    /\ returned = <<>>

-----------------------------------------------------------------------------
(* analyze *)

RootNode ==
    [name |-> root, children |-> <<>>, totalCycles |-> 0,
     minAddr |-> Infinity, maxAddr |-> -1]

\* ChildNode counting the call when the node is created
ChildNodeCountedAtCall(event) ==
    [name |-> event.name, children |-> <<>>, totalCycles |-> 0,
     callCount |-> 1, minAddr |-> Infinity, maxAddr |-> -1]

ChildNode(event) ==
    [name |-> event.name, children |-> <<>>, totalCycles |-> 0,
     callCount |-> 0, minAddr |-> Infinity, maxAddr |-> -1]

\* Entry of analyze up to the loop: a new root object, a stack holding its
\* frame, the active function reset.  functionStats and totalCycles are
\* not touched here.
AnalyzeStart ==
    /\ pc = "idle"
    /\ runs < MaxRuns
    /\ callTree' = <<RootNode>>
    /\ callStack' = <<[node |-> 1]>>
    /\ activeFunction' = root
    /\ idx' = 0
    /\ pc' = "loop"
    /\ UNCHANGED <<symFile, events, symbols, functionStats, totalCycles, runs,
                   returned>>

IsBegin(event) == event.ph = "B" /\ event.cat = "subroutine"

IsEnd(event) == ~IsBegin(event) /\ event.ph = "E" /\ event.cat = "subroutine"

\* IsInstruction asking for the instruction category as well
IsInstructionOfCategory(event) ==
    /\ ~IsBegin(event) /\ ~IsEnd(event)
    /\ event.ph = "X" /\ event.cat = "instruction"

IsInstruction(event) == ~IsBegin(event) /\ ~IsEnd(event) /\ event.ph = "X"

\* ProcessBegin as a profiler that merges calls would write it: a child of
\* the parent that already carries the name is entered again.
ProcessBeginMerging(event) ==
    LET parentNode == Last(callStack).node
        kids == callTree[parentNode].children
        same == {i \in 1..Len(kids) : callTree[kids[i]].name = event.name}
        childNode == Len(callTree) + 1
    IN /\ IF same = {}
             THEN /\ callTree' = Append([callTree EXCEPT ![parentNode].children =
                                            Append(@, childNode)],
                                        ChildNode(event))
                  /\ callStack' = Append(callStack, [node |-> childNode])
             ELSE /\ callTree' = callTree
                  /\ callStack' = Append(callStack,
                                         [node |-> kids[CHOOSE i \in same : TRUE]])
       /\ activeFunction' = event.name
       /\ UNCHANGED <<functionStats, totalCycles>>

\* ProcessBegin creating the callee's stats object at the call
ProcessBeginWithStats(event) ==
    LET parentNode == Last(callStack).node
        childNode == Len(callTree) + 1
    IN /\ callTree' = Append([callTree EXCEPT ![parentNode].children =
                                 Append(@, childNode)],
                             ChildNode(event))
       /\ callStack' = Append(callStack, [node |-> childNode])
       /\ activeFunction' = event.name
       /\ functionStats' =
              IF event.name \in DOMAIN functionStats THEN functionStats
              ELSE MapSet(functionStats, event.name,
                          [totalCycles |-> 0, instructions |-> EmptyMap])
       /\ UNCHANGED totalCycles

\* ProcessBegin putting the new node in front of its siblings
ProcessBeginPrepending(event) ==
    LET parentNode == Last(callStack).node
        childNode == Len(callTree) + 1
    IN /\ callTree' = Append([callTree EXCEPT ![parentNode].children =
                                 <<childNode>> \o @],
                             ChildNode(event))
       /\ callStack' = Append(callStack, [node |-> childNode])
       /\ activeFunction' = event.name
       /\ UNCHANGED <<functionStats, totalCycles>>

\* ProcessBegin hanging every new node under the root
ProcessBeginUnderRoot(event) ==
    LET parentNode == 1
        childNode == Len(callTree) + 1
    IN /\ callTree' = Append([callTree EXCEPT ![parentNode].children =
                                 Append(@, childNode)],
                             ChildNode(event))
       /\ callStack' = Append(callStack, [node |-> childNode])
       /\ activeFunction' = event.name
       /\ UNCHANGED <<functionStats, totalCycles>>

\* Subroutine call.  The frame's startCycles (event.ts) is written and never
\* read anywhere in the file; the frame is modelled by its node reference.
ProcessBegin(event) ==
    LET parentNode == Last(callStack).node
        childNode == Len(callTree) + 1
    IN /\ callTree' = Append([callTree EXCEPT ![parentNode].children =
                                 Append(@, childNode)],
                             ChildNode(event))
       /\ callStack' = Append(callStack, [node |-> childNode])
       /\ activeFunction' = event.name
       /\ UNCHANGED <<functionStats, totalCycles>>

\* StackAfterEnd guarding against an empty stack only
StackAfterEndPopsRoot(stack) == IF Len(stack) > 0 THEN Front(stack) ELSE stack

\* the stack after the conditional pop
StackAfterEnd(stack) == IF Len(stack) > 1 THEN Front(stack) ELSE stack

\* the conditional expression assigned to this.activeFunction after the pop
ActiveAfterEnd(stack, tree) ==
    IF Len(stack) > 1 THEN tree[stack[Len(stack) - 1].node].name ELSE root

\* ProcessEnd popping only when the End event names the node on top
ProcessEndMatchingName(event) ==
    LET frame == Last(callStack)
        matches == Len(callStack) > 1
                   /\ callTree[frame.node].name = event.name
        popped == IF matches THEN Front(callStack) ELSE callStack
    IN /\ callStack' = popped
       /\ callTree' = IF matches
                        THEN [callTree EXCEPT ![frame.node].callCount = @ + 1]
                        ELSE callTree
       /\ activeFunction' = ActiveAfterEnd(popped, callTree)
       /\ UNCHANGED <<functionStats, totalCycles>>

\* Subroutine return.  The address-range statement assigns minAddr to
\* itself and changes nothing.
ProcessEnd(event) ==
    LET frame == Last(callStack)
        popped == StackAfterEnd(callStack)
    IN /\ callStack' = popped
       /\ callTree' = IF Len(callStack) > 1
                        THEN [callTree EXCEPT ![frame.node].callCount = @ + 1]
                        ELSE callTree
       /\ activeFunction' = ActiveAfterEnd(popped, callTree)
       /\ UNCHANGED <<functionStats, totalCycles>>

\* Cycles with a default of one cycle
CyclesDefaultOne(event) ==
    IF "cycles" \in DOMAIN event.args THEN event.args.cycles ELSE 1

\* event.args.cycles || 0
Cycles(event) ==
    IF "cycles" \in DOMAIN event.args THEN event.args.cycles ELSE 0

\* the stats object the Map holds for funcName once the has/set test ran
StatsFor(stats, funcName) ==
    IF funcName \in DOMAIN stats
        THEN stats[funcName]
        ELSE [totalCycles |-> 0, instructions |-> EmptyMap]

\* the two address-range statements: a comparison with a field the object
\* does not have is false
TrackRange(stats, addr) ==
    LET lo == IF "minAddr" \in DOMAIN stats
                 /\ (stats.minAddr = Infinity \/ addr < stats.minAddr)
                THEN SetField(stats, "minAddr", addr) ELSE stats
    IN IF "maxAddr" \in DOMAIN lo
          /\ (addr > lo.maxAddr \/ lo.maxAddr = -1)
         THEN SetField(lo, "maxAddr", addr) ELSE lo

\* TrackInstruction with the cycles assigned where the code adds them
TrackInstructionAssigning(instructions, instKey, cycles) ==
    LET instStats == IF instKey \in DOMAIN instructions
                       THEN instructions[instKey]
                       ELSE [count |-> 0, cycles |-> 0]
    IN MapSet(instructions, instKey,
              [count |-> instStats.count + 1, cycles |-> cycles])

\* the per-mnemonic entry after this instruction
TrackInstruction(instructions, instKey, cycles) ==
    LET instStats == IF instKey \in DOMAIN instructions
                       THEN instructions[instKey]
                       ELSE [count |-> 0, cycles |-> 0]
    IN MapSet(instructions, instKey,
              [count |-> instStats.count + 1,
               cycles |-> instStats.cycles + cycles])

\* StatsAfter leaving out of the per-mnemonic table an instruction that
\* costs nothing
StatsAfterSkippingFree(stats, funcName, event) ==
    LET addr == ParseInt16(Substring1(event.args.addr))
        cycles == Cycles(event)
        entry == StatsFor(stats, funcName)
        counted == [entry EXCEPT !.totalCycles = @ + cycles]
        ranged == TrackRange(counted, addr)
        instKey == SplitFirst(event.name)
    IN MapSet(stats, funcName,
              IF cycles = 0 THEN ranged
              ELSE [ranged EXCEPT !.instructions =
                        TrackInstruction(@, instKey, cycles)])

\* this.functionStats after the branch's has/set, stats and instruction
\* statements
StatsAfter(stats, funcName, event) ==
    LET addr == ParseInt16(Substring1(event.args.addr))
        cycles == Cycles(event)
        entry == StatsFor(stats, funcName)
        counted == [entry EXCEPT !.totalCycles = @ + cycles]
        ranged == TrackRange(counted, addr)
        instKey == SplitFirst(event.name)
    IN MapSet(stats, funcName,
              [ranged EXCEPT !.instructions =
                   TrackInstruction(@, instKey, cycles)])

\* ProcessInstruction adding to the grand total only outside every call
ProcessInstructionTopLevelTotal(event) ==
    /\ totalCycles' = IF Len(callStack) = 1
                        THEN totalCycles + Cycles(event) ELSE totalCycles
    /\ functionStats' = StatsAfter(functionStats, activeFunction, event)
    /\ UNCHANGED <<callTree, callStack, activeFunction>>

\* ProcessInstruction crediting the function labelled at the instruction's
\* address when the symbol table has one
ProcessInstructionBySymbol(event) ==
    LET addr == ParseInt16(Substring1(event.args.addr))
        funcName == IF addr \in DOMAIN symbols THEN symbols[addr]
                    ELSE activeFunction
    IN /\ totalCycles' = totalCycles + Cycles(event)
       /\ functionStats' = StatsAfter(functionStats, funcName, event)
       /\ UNCHANGED <<callTree, callStack, activeFunction>>

\* ProcessInstruction re-deriving the active function from the top frame
ProcessInstructionResettingActive(event) ==
    /\ totalCycles' = totalCycles + Cycles(event)
    /\ functionStats' = StatsAfter(functionStats, activeFunction, event)
    /\ activeFunction' = callTree[Last(callStack).node].name
    /\ UNCHANGED <<callTree, callStack>>

\* functionStats after crediting the names of the first j frames
RECURSIVE CreditFrames(_, _, _)
CreditFrames(stats, j, event) ==
    IF j = 0 THEN stats
    ELSE StatsAfter(CreditFrames(stats, j - 1, event),
                    callTree[callStack[j].node].name, event)

\* ProcessInstruction crediting the entry of every frame on the stack
ProcessInstructionCreditingStack(event) ==
    /\ totalCycles' = totalCycles + Cycles(event)
    /\ functionStats' = CreditFrames(functionStats, Len(callStack), event)
    /\ UNCHANGED <<callTree, callStack, activeFunction>>

\* Instruction event.  No statement of this branch writes to a node of the
\* call tree.
ProcessInstruction(event) ==
    /\ totalCycles' = totalCycles + Cycles(event)
    /\ functionStats' = StatsAfter(functionStats, activeFunction, event)
    /\ UNCHANGED <<callTree, callStack, activeFunction>>

InLoop == pc = "loop" /\ idx < Len(events)

Step ==
    idx' = idx + 1 /\ UNCHANGED <<symFile, events, symbols, pc, runs, returned>>

Begin ==
    /\ InLoop
    /\ IsBegin(events[idx + 1])
    /\ ProcessBegin(events[idx + 1])
    /\ Step

\* End throwing on an End event that finds only the root frame
EndThrowing ==
    /\ InLoop
    /\ IsEnd(events[idx + 1])
    /\ IF Len(callStack) > 1
         THEN ProcessEnd(events[idx + 1]) /\ Step
         ELSE /\ pc' = "thrown"
              /\ UNCHANGED <<symFile, events, symbols, functionStats,
                             activeFunction, totalCycles, callTree, callStack,
                             idx, runs, returned>>

End ==
    /\ InLoop
    /\ IsEnd(events[idx + 1])
    /\ ProcessEnd(events[idx + 1])
    /\ Step

Instruction ==
    /\ InLoop
    /\ IsInstruction(events[idx + 1])
    /\ ProcessInstruction(events[idx + 1])
    /\ Step

\* an event none of the three branches takes
Skip ==
    /\ InLoop
    /\ ~IsBegin(events[idx + 1])
    /\ ~IsEnd(events[idx + 1])
    /\ ~IsInstruction(events[idx + 1])
    /\ Step
    /\ UNCHANGED <<functionStats, activeFunction, totalCycles, callTree,
                   callStack>>

\* return callTree: the caller receives the tree and reads functionStats and
\* totalCycles from the object.  The returned value has no other part.
Return ==
    /\ pc = "loop"
    /\ idx = Len(events)
    /\ pc' = "idle"
    /\ runs' = runs + 1
    /\ returned' = Append(returned,
                          [callTree |-> callTree,
                           functionStats |-> functionStats,
                           totalCycles |-> totalCycles])
    /\ UNCHANGED <<symFile, events, symbols, functionStats, activeFunction,
                   totalCycles, callTree, callStack, idx>>

Next == AnalyzeStart \/ Begin \/ End \/ Instruction \/ Skip \/ Return

Spec == Init /\ [][Next]_vars

SpecRaw == InitRaw /\ [][Next]_vars

\* countFunctions(node): the number of nodes below node
RECURSIVE countFunctions(_, _)
countFunctions(tree, node) ==
    LET kids == tree[node].children
        RECURSIVE Sum(_)
        Sum(i) == IF i = 0 THEN 0
                  ELSE Sum(i - 1) + 1 + countFunctions(tree, kids[i])
    IN Sum(Len(kids))

-----------------------------------------------------------------------------
(* Quantities of the trace the properties are stated against.  They are     *)
(* computed from the events alone, not from the profiler's variables.       *)

\* the events the loop of the current call has consumed
Processed == SubSeq(events, 1, idx)

\* the cost an instruction event carries, none counting as 0
EventCost(e) ==
    IF e.ph = "X" /\ "cycles" \in DOMAIN e.args THEN e.args.cycles ELSE 0

RECURSIVE TraceCost(_)
TraceCost(tr) ==
    IF tr = <<>> THEN 0 ELSE TraceCost(Front(tr)) + EventCost(Last(tr))

BeginsIn(tr) ==
    Cardinality({i \in 1..Len(tr) : tr[i].ph = "B" /\ tr[i].cat = "subroutine"})

\* The invocations of the first n events, numbered 1 for the top level and
\* k + 1 for the k-th Begin: which are open (innermost last, an End closing
\* the innermost one unless only the top level is open) and, for each, the
\* cost of the instruction events that occurred while it was open.
RECURSIVE Invocations(_)
Invocations(n) ==
    IF n = 0 THEN [open |-> <<1>>, cost |-> <<0>>]
    ELSE LET p == Invocations(n - 1)
             e == events[n]
         IN IF e.ph = "B" /\ e.cat = "subroutine"
              THEN [open |-> Append(p.open, Len(p.cost) + 1),
                    cost |-> Append(p.cost, 0)]
            ELSE IF e.ph = "E" /\ e.cat = "subroutine"
              THEN [open |-> IF Len(p.open) > 1 THEN Front(p.open) ELSE p.open,
                    cost |-> p.cost]
            ELSE IF e.ph = "X"
              THEN [open |-> p.open,
                    cost |-> [k \in DOMAIN p.cost |->
                                 IF \E j \in DOMAIN p.open : p.open[j] = k
                                   THEN p.cost[k] + EventCost(e)
                                   ELSE p.cost[k]]]
            ELSE p

\* the sum of the cycles of the entries of a per-mnemonic Map
RECURSIVE SumCycles(_)
SumCycles(instructions) ==
    IF DOMAIN instructions = {} THEN 0
    ELSE LET k == CHOOSE x \in DOMAIN instructions : TRUE
         IN instructions[k].cycles
            + SumCycles([x \in (DOMAIN instructions) \ {k} |-> instructions[x]])

\* inside the first analyze call of the object
FirstPass == pc = "loop" /\ runs = 0

-----------------------------------------------------------------------------
(* C1 *)

\* C1: throughout the first analyze call on a new profiler, and in what it
\* leaves, totalCycles is the sum of the costs of the instruction events
\* consumed so far, at whatever depth they occurred and whether or not the
\* Begin and End events balance.
C1_GrandTotalIsSumOfCosts ==
    /\ FirstPass => totalCycles = TraceCost(Processed)
    /\ returned # <<>> => returned[1].totalCycles = TraceCost(events)

\* a first call has returned with two invocations left open and costs
\* counted inside the inner one
C1_Witness ==
    /\ runs = 1 /\ pc = "idle"
    /\ Len(callStack) = 3
    /\ IsInstruction(events[Len(events)])
    /\ returned[1].totalCycles >= 10

-----------------------------------------------------------------------------
(* C2 *)

\* C2: at every point of a pass, the cumulative cost (totalCycles) of every
\* node of the tree, the root included, is the sum of the costs of the
\* instruction events consumed while the node was on the stack; the root's
\* is the grand total of the pass.
C2_CumulativeCostOfNodes ==
    pc = "loop" =>
        /\ \A k \in DOMAIN callTree :
               callTree[k].totalCycles = Invocations(idx).cost[k]
        /\ callTree[1].totalCycles = TraceCost(Processed)

-----------------------------------------------------------------------------
(* C3 *)

\* C3: during a pass the active function is always the name of the node the
\* top stack frame refers to (root when only the root frame remains), in
\* particular after an End that popped a frame.
C3_ActiveIsTopOfStack ==
    pc = "loop" => activeFunction = callTree[Last(callStack).node].name

-----------------------------------------------------------------------------
(* C4 *)

\* C4: for every entry of functionStats, the cycles of its per-mnemonic
\* entries add up to the entry's totalCycles.
C4_MnemonicCostsSumToTotal ==
    \A f \in DOMAIN functionStats :
        SumCycles(functionStats[f].instructions) = functionStats[f].totalCycles

\* an entry with two mnemonics, one of them counted twice with a cost
C4_Witness ==
    \E f \in DOMAIN functionStats :
        /\ Cardinality(DOMAIN functionStats[f].instructions) = 2
        /\ \E m \in DOMAIN functionStats[f].instructions :
               /\ functionStats[f].instructions[m].count = 2
               /\ functionStats[f].instructions[m].cycles = 15

-----------------------------------------------------------------------------
(* C5 *)

\* C5: a second analyze call on the same events leaves a tree, a
\* functionStats table and a grand total equal to those the first call left.
C5_SecondRunEqualsFirst ==
    Len(returned) >= 2 =>
        /\ returned[2].callTree = returned[1].callTree
        /\ returned[2].functionStats = returned[1].functionStats
        /\ returned[2].totalCycles = returned[1].totalCycles

-----------------------------------------------------------------------------
(* C6 *)

\* C6: the tree has one node besides the root for every Begin event consumed,
\* none merged with another; and right after a Begin event the newest node
\* carries the event's name, is the last child of the node of the frame
\* below the top, has no children, is referred to by the top frame, and is
\* the active function.
C6_OneNodePerBegin ==
    pc = "loop" =>
        /\ Len(callTree) = 1 + BeginsIn(Processed)
        /\ countFunctions(callTree, 1) = BeginsIn(Processed)
        /\ Len(callStack) = Len(Invocations(idx).open)
        /\ (idx > 0 /\ events[idx].ph = "B" /\ events[idx].cat = "subroutine") =>
               LET new == Len(callTree)
                   parent == callStack[Len(callStack) - 1].node
               IN /\ Last(callStack).node = new
                  /\ callTree[new].name = events[idx].name
                  /\ callTree[new].children = <<>>
                  /\ Last(callTree[parent].children) = new
                  /\ parent = Invocations(idx - 1).open[Len(callStack) - 1]
                  /\ activeFunction = events[idx].name

\* a node named F with two children named F: the name repeats along the
\* chain and among the siblings
C6_Witness ==
    /\ pc = "loop"
    /\ \E k \in DOMAIN callTree :
           /\ callTree[k].name = <<"F">>
           /\ Len(callTree[k].children) = 2
           /\ \A i \in 1..2 : callTree[callTree[k].children[i]].name = <<"F">>

-----------------------------------------------------------------------------
(* C7 *)

\* C7: consuming an End event while the stack holds only the root frame
\* changes neither the stack, the active function, the tree, functionStats
\* nor the grand total.
C7_StrayEndChangesNothing ==
    [][(/\ pc = "loop"
        /\ idx < Len(events)
        /\ idx' = idx + 1
        /\ events[idx + 1].ph = "E"
        /\ events[idx + 1].cat = "subroutine"
        /\ Len(callStack) = 1)
       => UNCHANGED <<callStack, activeFunction, callTree, functionStats,
                      totalCycles>>]_vars

\* an End event was just consumed with only the root open, after a call
\* that returned and an instruction that cost something
C7_Witness ==
    /\ pc = "loop"
    /\ idx > 1
    /\ events[idx].ph = "E" /\ events[idx].cat = "subroutine"
    /\ Invocations(idx - 1).open = <<1>>
    /\ Len(callTree) > 1
    /\ totalCycles > 0

-----------------------------------------------------------------------------
(* C8 *)

\* C8: the first call on the recursion trace leaves two nested nodes named
\* F, the outer with cumulative cost 15 and the inner with 5, and one
\* functionStats entry, F, with total 15 and mnemonic X counted twice for 15.
C8_RecursionScenario ==
    (events = RecursionTrace /\ returned # <<>>) =>
        LET tree == returned[1].callTree
            stats == returned[1].functionStats
        IN /\ Len(tree) = 3
           /\ tree[1].children = <<2>>
           /\ tree[2].children = <<3>>
           /\ tree[3].children = <<>>
           /\ tree[2].name = <<"F">> /\ tree[2].totalCycles = 15
           /\ tree[3].name = <<"F">> /\ tree[3].totalCycles = 5
           /\ DOMAIN stats = {<<"F">>}
           /\ stats[<<"F">>].totalCycles = 15
           /\ stats[<<"F">>].instructions =
                  [m \in {<<"X">>} |-> [count |-> 2, cycles |-> 15]]

-----------------------------------------------------------------------------
(* C9 *)

\* what the sibling trace leaves: two children of the root named A, each
\* with cumulative cost 0 and call count 1, and an empty functionStats
C9_SiblingResult ==
    (events = SiblingTrace /\ returned # <<>>) =>
        LET tree == returned[1].callTree
        IN /\ Len(tree) = 3
           /\ tree[1].children = <<2, 3>>
           /\ \A k \in {2, 3} :
                  /\ tree[k].name = <<"A">>
                  /\ tree[k].children = <<>>
                  /\ tree[k].totalCycles = 0
                  /\ tree[k].callCount = 1
           /\ returned[1].functionStats = EmptyMap

\* C9: the sibling trace leaves two sibling nodes named A with cumulative
\* cost 0 and call count 1 and no functionStats entry; and functionStats,
\* empty on a new profiler, gains an entry for a name only in a step that
\* consumes an instruction event while that name is the active function.
C9_EntryOnlyForActiveAtInstruction ==
    /\ [](C9_SiblingResult /\ (runs = 0 /\ pc = "idle" => functionStats = EmptyMap))
    /\ [][\A n \in (DOMAIN functionStats') \ (DOMAIN functionStats) :
              /\ pc = "loop" /\ idx < Len(events) /\ idx' = idx + 1
              /\ events[idx + 1].ph = "X"
              /\ activeFunction = n]_vars

\* the first call on the sibling trace has returned
C9_Witness ==
    /\ events = SiblingTrace
    /\ runs = 1 /\ pc = "idle"
    /\ Len(returned[1].callTree[1].children) = 2

-----------------------------------------------------------------------------
(* C10 *)

\* C10: when the first call returns with k >= 1 invocations still open, each
\* open node has the cumulative cost accrued while it was open, the grand
\* total is the cost of all instructions, and the result carries k
\* diagnostics for the unterminated invocations.
C10_TruncationKeepsPartialTotals ==
    (runs = 1 /\ pc = "idle" /\ Len(callStack) > 1) =>
        /\ \A j \in 2..Len(callStack) :
               callTree[callStack[j].node].totalCycles =
                   Invocations(Len(events)).cost[callStack[j].node]
        /\ returned[1].totalCycles = TraceCost(events)
        /\ "diagnostics" \in DOMAIN returned[1]
        /\ Len(returned[1].diagnostics) = Len(callStack) - 1

-----------------------------------------------------------------------------
(* C11 *)

\* the number of End events among the first n that found only the top level
\* open
RECURSIVE StrayEnds(_)
StrayEnds(n) ==
    IF n = 0 THEN 0
    ELSE StrayEnds(n - 1)
         + (IF /\ events[n].ph = "E" /\ events[n].cat = "subroutine"
               /\ Invocations(n - 1).open = <<1>>
              THEN 1 ELSE 0)

\* C11 as stated: what the first call returns carries a diagnostics list
\* with one entry for every End event that found only the root frame.
C11_OneDiagnosticPerStrayEnd ==
    (runs = 1 /\ pc = "idle" /\ StrayEnds(Len(events)) >= 1) =>
        /\ "diagnostics" \in DOMAIN returned[1]
        /\ Len(returned[1].diagnostics) = StrayEnds(Len(events))

\* C11, amended: an End event that finds only the root frame throws nothing,
\* the loop goes on to the next event; and what a call leaves is the tree,
\* functionStats and the grand total, with no diagnostics list, so that no
\* event adds a diagnostic.
C11_StrayEndIgnoredWithoutDiagnostic ==
    /\ [](\A i \in DOMAIN returned :
              DOMAIN returned[i] = {"callTree", "functionStats", "totalCycles"})
    /\ [][(/\ pc = "loop"
           /\ idx < Len(events)
           /\ events[idx + 1].ph = "E"
           /\ events[idx + 1].cat = "subroutine"
           /\ Len(callStack) = 1)
          => (pc' = "loop" /\ idx' = idx + 1)]_vars

\* the first call has returned from a trace that starts with an End event
\* and goes on with an instruction that cost something
C11_Witness ==
    /\ runs = 1 /\ pc = "idle"
    /\ Len(events) >= 2
    /\ events[1].ph = "E" /\ events[1].cat = "subroutine"
    /\ returned[1].totalCycles > 0

-----------------------------------------------------------------------------
(* C12 *)

\* the node is referred to by a frame of the stack
OnStack(k) == \E j \in DOMAIN callStack : callStack[j].node = k

\* C12 as stated: once the first call has consumed the whole trace, every
\* node but the root has call count 1, closed by an End or not.
C12_EveryNodeCountsOne ==
    (runs = 1 /\ pc = "idle") =>
        \A k \in 2..Len(callTree) : callTree[k].callCount = 1

\* C12, amended: at every point, the trace fully consumed included, a node
\* other than the root has call count 1 when an End event has popped its
\* frame and 0 while its frame is still on the stack; no count exceeds 1.
C12_CountIsOneOncePopped ==
    \A k \in 2..Len(callTree) :
        /\ callTree[k].callCount = (IF OnStack(k) THEN 0 ELSE 1)
        /\ callTree[k].callCount <= 1

\* the first call has returned leaving a node that was closed and a node
\* that is still open
C12_Witness ==
    /\ runs = 1 /\ pc = "idle"
    /\ \E k \in 2..Len(callTree) : ~OnStack(k) /\ callTree[k].callCount = 1
    /\ \E k \in 2..Len(callTree) : OnStack(k) /\ callTree[k].callCount = 0

-----------------------------------------------------------------------------
(* C13 *)

\* C13: consuming an instruction event that has no cycles field leaves the
\* grand total and the total of the active function's entry as they were
\* (0 for an entry created by this event), and adds one to the count of the
\* event's mnemonic in that entry without adding to its cycles.
C13_MissingCostCountsAsZero ==
    [][(/\ pc = "loop"
        /\ idx < Len(events)
        /\ idx' = idx + 1
        /\ events[idx + 1].ph = "X"
        /\ "cycles" \notin DOMAIN events[idx + 1].args)
       => LET f == activeFunction
              m == SplitFirst(events[idx + 1].name)
              had == f \in DOMAIN functionStats
              hadKey == had /\ m \in DOMAIN functionStats[f].instructions
          IN /\ totalCycles' = totalCycles
             /\ f \in DOMAIN functionStats'
             /\ functionStats'[f].totalCycles =
                    (IF had THEN functionStats[f].totalCycles ELSE 0)
             /\ m \in DOMAIN functionStats'[f].instructions
             /\ functionStats'[f].instructions[m].count =
                    (IF hadKey THEN functionStats[f].instructions[m].count ELSE 0)
                    + 1
             /\ functionStats'[f].instructions[m].cycles =
                    (IF hadKey THEN functionStats[f].instructions[m].cycles
                     ELSE 0)]_vars

\* an instruction without cycles was just consumed inside A and created A's
\* entry, after an instruction that cost 10 outside it
C13_Witness ==
    /\ pc = "loop" /\ runs = 0
    /\ idx > 0
    /\ events[idx].ph = "X" /\ "cycles" \notin DOMAIN events[idx].args
    /\ activeFunction = <<"A">>
    /\ totalCycles = 10
    /\ <<"A">> \in DOMAIN functionStats
    /\ functionStats[<<"A">>].totalCycles = 0
    /\ functionStats[<<"A">>].instructions =
           [m \in {<<"Y">>} |-> [count |-> 1, cycles |-> 0]]

-----------------------------------------------------------------------------
(* C14 *)

\* What a pass over the first n events leaves on a new profiler, as a
\* function of the events alone: the symbol table is no argument of it.
RECURSIVE PassOf(_)
PassOf(n) ==
    IF n = 0
      THEN [tree |-> <<RootNode>>, stack |-> <<[node |-> 1]>>,
            active |-> root, stats |-> EmptyMap, total |-> 0]
    ELSE LET p == PassOf(n - 1)
             e == events[n]
             top == Last(p.stack).node
             new == Len(p.tree) + 1
             popped == StackAfterEnd(p.stack)
         IN IF IsBegin(e)
              THEN [p EXCEPT
                      !.tree = Append([p.tree EXCEPT ![top].children =
                                          Append(@, new)],
                                      ChildNode(e)),
                      !.stack = Append(@, [node |-> new]),
                      !.active = e.name]
            ELSE IF IsEnd(e)
              THEN [p EXCEPT
                      !.tree = IF Len(p.stack) > 1
                                 THEN [p.tree EXCEPT ![top].callCount = @ + 1]
                                 ELSE p.tree,
                      !.stack = popped,
                      !.active = ActiveAfterEnd(popped, p.tree)]
            ELSE IF IsInstruction(e)
              THEN [p EXCEPT
                      !.stats = StatsAfter(p.stats, p.active, e),
                      !.total = @ + Cycles(e)]
            ELSE p

\* C14: a symbol file that does not exist gives an empty symbols Map; and
\* whatever the symbols Map is, the tree, the stack, the active function,
\* functionStats and the grand total of the first pass, and what it leaves,
\* are those determined by the events alone.
C14_ResultIndependentOfSymbols ==
    /\ ~symFile.exists => symbols = EmptyMap
    /\ FirstPass =>
           /\ callTree = PassOf(idx).tree
           /\ callStack = PassOf(idx).stack
           /\ activeFunction = PassOf(idx).active
           /\ functionStats = PassOf(idx).stats
           /\ totalCycles = PassOf(idx).total
    /\ returned # <<>> =>
           returned[1] = [callTree |-> PassOf(Len(events)).tree,
                          functionStats |-> PassOf(Len(events)).stats,
                          totalCycles |-> PassOf(Len(events)).total]

\* without a symbol file, the first call has returned a tree with a call in
\* it and a grand total
C14_Witness ==
    /\ ~symFile.exists
    /\ symbols = EmptyMap
    /\ runs = 1 /\ pc = "idle"
    /\ Len(returned[1].callTree) > 1
    /\ returned[1].totalCycles > 0

-----------------------------------------------------------------------------
(* C15 *)

\* the address an instruction event carries
AddressOf(e) == ParseInt16(Substring1(e.args.addr))

\* the addresses of the instruction events among the first n that were
\* credited to the entry named f
AddressesOf(n, f) ==
    {AddressOf(events[i]) :
        i \in {j \in 1..n : events[j].ph = "X" /\ PassOf(j - 1).active = f}}

\* C15: in the first pass every entry of functionStats has a minAddr and a
\* maxAddr, the least and the greatest address of the instruction events
\* credited to it, so that right after an instruction event the range of
\* the active function's entry contains the event's address.
C15_AddressRangeTracked ==
    FirstPass =>
        \A f \in DOMAIN functionStats :
            /\ "minAddr" \in DOMAIN functionStats[f]
            /\ "maxAddr" \in DOMAIN functionStats[f]
            /\ \A a \in AddressesOf(idx, f) :
                   functionStats[f].minAddr <= a /\ a <= functionStats[f].maxAddr
            /\ functionStats[f].minAddr \in AddressesOf(idx, f)
            /\ functionStats[f].maxAddr \in AddressesOf(idx, f)

-----------------------------------------------------------------------------
(* C16 *)

\* C16: consuming an instruction event while the stack holds only the root
\* frame adds the event's cost to the root node's cumulative cost and to the
\* total of the functionStats entry named root, and leaves every entry of
\* another name as it was.
C16_RootLevelInstructionCreditsRoot ==
    [][(/\ pc = "loop"
        /\ idx < Len(events)
        /\ idx' = idx + 1
        /\ events[idx + 1].ph = "X"
        /\ Len(callStack) = 1)
       => LET cost == EventCost(events[idx + 1])
          IN /\ callTree'[1].totalCycles = callTree[1].totalCycles + cost
             /\ root \in DOMAIN functionStats'
             /\ functionStats'[root].totalCycles =
                    (IF root \in DOMAIN functionStats
                       THEN functionStats[root].totalCycles ELSE 0) + cost
             /\ \A f \in (DOMAIN functionStats') \ {root} :
                    /\ f \in DOMAIN functionStats
                    /\ functionStats'[f] = functionStats[f]]_vars

-----------------------------------------------------------------------------
(* C17 *)

\* the shape of a tree: its nodes, their names and their child lists
Shape(tree) == [k \in DOMAIN tree |-> <<tree[k].name, tree[k].children>>]

\* C17: consuming an End event with more than the root frame on the stack
\* pops exactly the top frame, which is that of the most recently opened
\* invocation still open, whatever name the event carries; the frames below
\* and the shape of the tree stay as they were.
C17_EndPopsTopFrame ==
    [][(/\ pc = "loop"
        /\ idx < Len(events)
        /\ idx' = idx + 1
        /\ events[idx + 1].ph = "E"
        /\ events[idx + 1].cat = "subroutine"
        /\ Len(callStack) > 1)
       => /\ Last(callStack).node = Last(Invocations(idx).open)
          /\ callStack' = Front(callStack)
          /\ Shape(callTree') = Shape(callTree)]_vars

\* an End event carrying the name A was just consumed with two invocations
\* named F open, and closed the inner one
C17_Witness ==
    /\ pc = "loop"
    /\ idx > 0
    /\ events[idx] = EndEvent(<<"A">>)
    /\ Len(Invocations(idx - 1).open) = 3
    /\ callTree[Last(Invocations(idx - 1).open)].name = <<"F">>
    /\ callTree[Last(Invocations(idx - 1).open)].callCount = 1
    /\ Len(callStack) = 2

-----------------------------------------------------------------------------
(* C18 *)

\* C18: consuming an instruction event leaves the active function, the
\* stack and the shape of the tree as they were; within a pass the active
\* function changes only in a step that consumes a Begin or an End event.
C18_InstructionKeepsActiveStackShape ==
    [][(pc = "loop" /\ idx < Len(events) /\ idx' = idx + 1) =>
          /\ events[idx + 1].ph = "X" =>
                 /\ activeFunction' = activeFunction
                 /\ callStack' = callStack
                 /\ Shape(callTree') = Shape(callTree)
          /\ activeFunction' # activeFunction =>
                 /\ events[idx + 1].ph \in {"B", "E"}
                 /\ events[idx + 1].cat = "subroutine"]_vars

\* an instruction event was just consumed two calls deep
C18_Witness ==
    /\ pc = "loop"
    /\ idx > 0
    /\ events[idx].ph = "X"
    /\ Len(callStack) = 3
    /\ activeFunction = <<"F">>
    /\ <<"F">> \in DOMAIN functionStats

-----------------------------------------------------------------------------
(* C19 *)

\* the cost of the instruction events among the first n that were consumed
\* while f was the active function
RECURSIVE CostWhileActive(_, _)
CostWhileActive(n, f) ==
    IF n = 0 THEN 0
    ELSE CostWhileActive(n - 1, f)
         + (IF events[n].ph = "X" /\ PassOf(n - 1).active = f
              THEN EventCost(events[n]) ELSE 0)

\* C19: consuming an instruction event credits the functionStats entry of
\* the active function and no other: its total grows by the cost, one of
\* its mnemonic entries gains one count and the cost, and every other
\* mnemonic entry and every other entry, those of the other names on the
\* stack included, stays as it was.  So in the first pass an entry's total
\* is the cost of the instruction events consumed while its name was active.
C19_InstructionCreditsActiveEntryOnly ==
    /\ [](FirstPass =>
             \A f \in DOMAIN functionStats :
                 functionStats[f].totalCycles = CostWhileActive(idx, f))
    /\ [][(/\ pc = "loop"
           /\ idx < Len(events)
           /\ idx' = idx + 1
           /\ events[idx + 1].ph = "X")
          => LET f == activeFunction
                 cost == EventCost(events[idx + 1])
                 had == f \in DOMAIN functionStats
                 before == IF had THEN functionStats[f].instructions
                           ELSE EmptyMap
                 after == functionStats'[f].instructions
             IN /\ DOMAIN functionStats' = (DOMAIN functionStats) \cup {f}
                /\ functionStats'[f].totalCycles =
                       (IF had THEN functionStats[f].totalCycles ELSE 0) + cost
                /\ \E m \in DOMAIN after :
                       /\ after[m].count =
                              (IF m \in DOMAIN before THEN before[m].count
                               ELSE 0) + 1
                       /\ after[m].cycles =
                              (IF m \in DOMAIN before THEN before[m].cycles
                               ELSE 0) + cost
                       /\ DOMAIN after = (DOMAIN before) \cup {m}
                       /\ \A o \in (DOMAIN before) \ {m} : after[o] = before[o]
                /\ \A g \in (DOMAIN functionStats) \ {f} :
                       functionStats'[g] = functionStats[g]]_vars

\* an instruction was just consumed in a second, nested invocation of F:
\* the entry F holds the cost of both invocations and root has no entry
C19_Witness ==
    /\ FirstPass
    /\ idx > 0
    /\ events[idx].ph = "X"
    /\ Len(callStack) = 3
    /\ DOMAIN functionStats = {<<"F">>}
    /\ functionStats[<<"F">>].totalCycles = 15

-----------------------------------------------------------------------------
(* C20 *)

\* C20: the nodes being numbered in the order of the Begin events that
\* created them, every child list is in increasing order, the earlier call
\* first; and within a pass a child list only grows at its end.
C20_ChildrenInCallOrder ==
    /\ [](\A k \in DOMAIN callTree :
              \A i, j \in DOMAIN callTree[k].children :
                  i < j => callTree[k].children[i] < callTree[k].children[j])
    /\ [][(pc = "loop" /\ pc' = "loop") =>
             \A k \in DOMAIN callTree :
                 /\ k \in DOMAIN callTree'
                 /\ Len(callTree'[k].children) >= Len(callTree[k].children)
                 /\ SubSeq(callTree'[k].children, 1, Len(callTree[k].children))
                        = callTree[k].children]_vars

\* a Begin event just gave the root its second child, named after it
C20_Witness ==
    /\ pc = "loop"
    /\ idx > 0
    /\ events[idx].ph = "B" /\ events[idx].cat = "subroutine"
    /\ Len(callTree[1].children) = 2
    /\ callTree[callTree[1].children[1]].name = <<"A">>
    /\ callTree[callTree[1].children[2]].name = <<"F">>
    /\ callTree[1].children[2] = Len(callTree)

-----------------------------------------------------------------------------
(* C21 *)

IsWhitespace(c) == c = " " \/ c = Tab

\* the characters of s before its first whitespace character
RECURSIVE UpToWhitespace(_)
UpToWhitespace(s) ==
    IF s = <<>> \/ IsWhitespace(s[1]) THEN <<>>
    ELSE <<s[1]>> \o UpToWhitespace(Tail(s))

\* the first whitespace-delimited token of a descriptor: leading whitespace
\* is skipped, and the token ends at the next space or tab
RECURSIVE FirstToken(_)
FirstToken(s) ==
    IF s # <<>> /\ IsWhitespace(s[1]) THEN FirstToken(Tail(s))
    ELSE UpToWhitespace(s)

\* the mnemonics the entries of the table hold
MnemonicsCounted ==
    UNION {DOMAIN functionStats[f].instructions : f \in DOMAIN functionStats}

\* C21: during the first pass, the mnemonics under which the table counts
\* instructions are exactly the first whitespace-delimited tokens of the
\* descriptors of the instruction events processed so far, whether the
\* tokens are separated by a space or a tab and whether or not the
\* descriptor starts with whitespace.
C21_MnemonicIsFirstToken ==
    FirstPass =>
        MnemonicsCounted =
            {FirstToken(events[i].name) :
                 i \in {j \in 1..idx : events[j].ph = "X"}}

-----------------------------------------------------------------------------
(* C22 *)

EndsIn(tr) ==
    Cardinality({i \in 1..Len(tr) : tr[i].ph = "E" /\ tr[i].cat = "subroutine"})

\* C22: once analyze has set up its stack, after any number of events the
\* stack is not empty, its bottom frame refers to the root node, every
\* other frame's node is the last child of the node of the frame below it,
\* and the depth is 1 plus the Begin events minus the End events that found
\* a depth greater than 1.
C22_StackIsRootPath ==
    (pc = "loop" \/ runs > 0) =>
        /\ Len(callStack) >= 1
        /\ callStack[1].node = 1
        /\ callTree[1].name = root
        /\ \A j \in 2..Len(callStack) :
               LET kids == callTree[callStack[j - 1].node].children
               IN kids # <<>> /\ Last(kids) = callStack[j].node
        /\ Len(callStack) =
               1 + BeginsIn(Processed) - (EndsIn(Processed) - StrayEnds(idx))

\* two calls are open, the outer one being the root's second child, and an
\* End event has been processed
C22_Witness ==
    /\ pc = "loop"
    /\ Len(callStack) = 3
    /\ Len(callTree[1].children) = 2
    /\ callStack[2].node = callTree[1].children[2]
    /\ EndsIn(Processed) > 0

-----------------------------------------------------------------------------
(* C23 *)

\* the sum of the totalCycles of the entries of the table
RECURSIVE SumTotals(_)
SumTotals(stats) ==
    IF DOMAIN stats = {} THEN 0
    ELSE LET f == CHOOSE x \in DOMAIN stats : TRUE
         IN stats[f].totalCycles
            + SumTotals([x \in (DOMAIN stats) \ {f} |-> stats[x]])

\* the sum of the counts of the entries of a per-mnemonic Map
RECURSIVE SumCounts(_)
SumCounts(instructions) ==
    IF DOMAIN instructions = {} THEN 0
    ELSE LET k == CHOOSE x \in DOMAIN instructions : TRUE
         IN instructions[k].count
            + SumCounts([x \in (DOMAIN instructions) \ {k} |-> instructions[x]])

\* the sum of all per-mnemonic counts over all entries of the table
RECURSIVE SumAllCounts(_)
SumAllCounts(stats) ==
    IF DOMAIN stats = {} THEN 0
    ELSE LET f == CHOOSE x \in DOMAIN stats : TRUE
         IN SumCounts(stats[f].instructions)
            + SumAllCounts([x \in (DOMAIN stats) \ {f} |-> stats[x]])

\* the number of events with the instruction phase among the first n
InstructionsIn(n) == Cardinality({i \in 1..n : events[i].ph = "X"})

\* C23: during the first analyze call on a new profiler and once it has
\* returned, the total costs of the entries of the table sum to the grand
\* total, and the per-mnemonic counts of all entries sum to the number of
\* instruction events processed.
C23_EntriesSumToTotals ==
    (FirstPass \/ (pc = "idle" /\ runs = 1)) =>
        /\ SumTotals(functionStats) = totalCycles
        /\ SumAllCounts(functionStats) = InstructionsIn(idx)

\* the first call has returned with two entries in the table, one of them
\* holding two mnemonics, after an instruction that carried no cost
C23_Witness ==
    /\ pc = "idle" /\ runs = 1
    /\ Cardinality(DOMAIN functionStats) = 2
    /\ \E f \in DOMAIN functionStats :
           Cardinality(DOMAIN functionStats[f].instructions) = 2
    /\ \E i \in 1..idx :
           events[i].ph = "X" /\ "cycles" \notin DOMAIN events[i].args
    /\ totalCycles > 0

-----------------------------------------------------------------------------
(* C24 *)

\* the total cost the table holds for a name, 0 when it has no entry
TotalOf(stats, f) == IF f \in DOMAIN stats THEN stats[f].totalCycles ELSE 0

\* C24: a Begin or End event whose category is not 'subroutine', and an
\* event whose phase is none of Begin, End and the instruction phase, leave
\* the stack, the active function, the tree, the table and the grand total
\* unchanged; an event of the instruction phase, whatever its category,
\* adds its cost to the grand total and to the entry of the active function,
\* counts one instruction there, and leaves the other entries, the tree,
\* the stack and the active function alone.
C24_EventClassification ==
    [][(pc = "loop" /\ idx' = idx + 1) =>
          LET e == events[idx + 1]
          IN /\ (\/ (e.ph \in {"B", "E"} /\ e.cat # "subroutine")
                 \/ e.ph \notin {"B", "E", "X"})
                    => UNCHANGED <<callStack, activeFunction, callTree,
                                   functionStats, totalCycles>>
             /\ e.ph = "X"
                    => /\ totalCycles' = totalCycles + EventCost(e)
                       /\ DOMAIN functionStats' =
                              (DOMAIN functionStats) \cup {activeFunction}
                       /\ TotalOf(functionStats', activeFunction) =
                              TotalOf(functionStats, activeFunction)
                              + EventCost(e)
                       /\ SumAllCounts(functionStats') =
                              SumAllCounts(functionStats) + 1
                       /\ \A f \in DOMAIN functionStats :
                              f # activeFunction
                                  => functionStats'[f] = functionStats[f]
                       /\ UNCHANGED <<callStack, activeFunction, callTree>>
      ]_vars

\* a Begin event of another category was passed over while a call was open,
\* and the instruction event of the subroutine category after it was
\* credited to that call
C24_Witness ==
    /\ pc = "loop"
    /\ idx >= 3
    /\ events[idx - 1].ph = "B" /\ events[idx - 1].cat = "function"
    /\ events[idx].ph = "X" /\ events[idx].cat = "subroutine"
    /\ Len(callStack) = 2 /\ Len(callTree) = 2
    /\ activeFunction = <<"A">>
    /\ TotalOf(functionStats, <<"A">>) >= 3

====
